---- MODULE Spec2Model ----
(***************************************************************************)
(* NatureTrail (naturetrail_app.py): the store behind one sqlite3          *)
(* connection, the authentication manager's session object, the badge      *)
(* manager and the payment manager, as a state machine.                    *)
(*                                                                         *)
(* Time is counted in days: datetime.datetime.now() reads the variable     *)
(* now, and two reads inside one handler may return different values.      *)
(* uuid.uuid4() returns a value that is in use nowhere in the state: the   *)
(* least such number, so that two runs differing only in the names of     *)
(* their ids are one run.                                                  *)
(***************************************************************************)
EXTENDS Integers, Sequences, FiniteSets, TLC

(* ------------------------------ bounds -------------------------------- *)
\* rows the subscriptions table may hold
MaxSubs == 2
\* rows the subscriptions table may hold in the runs that vary every field of a row
MaxPaid == 1
\* last day the clock reaches
MaxClock == 2
\* concurrent request handlers sharing the connection
NumHandlers == 2
\* sightings a user logs
MaxSightings == 6
\* trail completions recorded for a user
MaxCompletions == 1

VARIABLES
    disk,          \* the committed content of naturetrail.db
    conn,          \* the content as the one shared connection sees it (uncommitted writes included)
    now,           \* the wall clock, in days
    current_user,  \* AuthenticationManager.current_user
    ret,           \* the last finished call: its name and the pair it returned
    sessions,      \* the checkout sessions create_payment_session has returned so far
    pc,            \* per concurrent handler: its position in process_successful_payment
    loc            \* per concurrent handler: its local variables and, at the end, what it returned

vars == <<disk, conn, now, current_user, ret, sessions, pc, loc>>

(* ------------------------------ values -------------------------------- *)
\* SQL NULL, Python None as a value: a text-like value that is no isoformat text
NULL == <<"NULL">>
None == [kind |-> "None"]
\* an id no uuid4 call returns
NoSuchId == 0

\* datetime.isoformat(): the TEXT stored for a datetime
isoformat(t) == <<"iso", t>>
\* the datetime an isoformat TEXT stands for
fromisoformat(s) == s[2]
\* datetime.timedelta(days=d), in the clock's unit
timedelta(d) == d

Usernames == {"alice", "bob"}
Emails == {"alice@x.org", "bob@x.org"}
Passwords == {"secret1", "secret2"}
Salts == {"salt1", "salt2"}
UserTypes == {"standard", "premium"}
PaymentMethods == {"card", "paypal"}
PlanArgs == {"monthly", "annual", "weekly"}
\* the plan types of the lifecycle runs: one of the catalog, one that is not
LifecyclePlanArgs == {"monthly", "weekly"}
Handlers == 1..NumHandlers

(* ------------------------- PremiumUser / StandardUser ------------------ *)
StandardPermissions == <<"view_trails", "log_sightings", "view_own_history">>

\* a PremiumUser.get_permissions that leaves out super().get_permissions()
PremiumPermissionsOnly ==
    <<"download_trail_maps", "advanced_analytics", "ad_free_experience", "exclusive_content">>

PremiumPermissions ==
    StandardPermissions \o
    <<"download_trail_maps", "advanced_analytics", "ad_free_experience", "exclusive_content">>

\* StandardUser(user_id, username, email)
StandardUser(user_id, username, email) ==
    [kind |-> "StandardUser", user_id |-> user_id, username |-> username,
     email |-> email, last_login |-> NULL]

\* days a new PremiumUser object is given
DefaultExpiryDays == 30

\* PremiumUser(user_id, username, email), constructed when the clock reads t
PremiumUser(user_id, username, email, t) ==
    [kind |-> "PremiumUser", user_id |-> user_id, username |-> username,
     email |-> email, last_login |-> NULL, subscription_level |-> "basic",
     subscription_expiry |-> t + timedelta(DefaultExpiryDays)]

get_permissions(user) ==
    IF user.kind = "PremiumUser" THEN PremiumPermissions ELSE StandardPermissions

\* User.record_login, the clock reading t
record_login(user, t) == [user EXCEPT !.last_login = t]

\* the expiry renew_subscription(days) stores, the clock reading t
RenewedExpiry(expiry, t, days) == t + timedelta(days)

(* ------------------------------ Database ------------------------------- *)
\* the trails _populate_initial_data inserts; their ids are the first two uuid4 values
SampleTrails ==
    { [trail_id |-> 1, name |-> "Emerald Lake Loop", difficulty |-> "Moderate",
       elevation_gain |-> 650],
      [trail_id |-> 2, name |-> "Coastal Redwood Path", difficulty |-> "Easy",
       elevation_gain |-> 120] }

\* the badges _populate_initial_data inserts; their ids are the next three uuid4 values
SampleBadges ==
    { [badge_id |-> 3, name |-> "Trail Pioneer", category |-> "achievements"],
      [badge_id |-> 4, name |-> "Wildlife Spotter", category |-> "wildlife"],
      [badge_id |-> 5, name |-> "Mountain Goat", category |-> "achievements"] }

\* the database after Database.__init__ on a new file
EmptyDb ==
    [users |-> {}, subscriptions |-> <<>>, user_badges |-> {}, badges |-> SampleBadges,
     trails |-> SampleTrails, trail_history |-> {}, sightings |-> {}]

\* Database.commit: what the connection sees becomes the committed content
Commit(c) == c

\* a handler whose except branch does not roll back
RollbackMissing(c, d) == c

\* connection.rollback(): the connection goes back to the committed content d
Rollback(c, d) == d

\* a users table whose username and email columns are not declared UNIQUE
UsersPrimaryKeyOnly(c, row) == \E u \in c.users : u.user_id = row.user_id

\* the users table's constraints: user_id PRIMARY KEY, username UNIQUE, email UNIQUE
UsersConstraintFails(c, row) ==
    \E u \in c.users :
        \/ u.user_id = row.user_id
        \/ u.username = row.username
        \/ u.email = row.email

\* a user_badges table declared without its primary key
UserBadgesNoConstraint(c, row) == FALSE

\* the user_badges table's constraint: PRIMARY KEY (user_id, badge_id)
UserBadgesConstraintFails(c, row) ==
    \E b \in c.user_badges : b.user_id = row.user_id /\ b.badge_id = row.badge_id

\* the subscriptions table's constraint: subscription_id PRIMARY KEY
SubscriptionsConstraintFails(c, row) ==
    \E i \in 1..Len(c.subscriptions) :
        c.subscriptions[i].subscription_id = row.subscription_id

InsertUser(c, row) == [c EXCEPT !.users = @ \cup {row}]

InsertSubscription(c, row) == [c EXCEPT !.subscriptions = Append(@, row)]

\* UPDATE users SET user_type = t WHERE user_id = id
UpdateUserType(c, id, t) ==
    [c EXCEPT !.users =
        {IF u.user_id = id THEN [u EXCEPT !.user_type = t] ELSE u : u \in @}]

\* a login that does not write the last_login column
UpdateLastLoginNowhere(c, id, t) == c

\* UPDATE users SET last_login = t WHERE user_id = id
UpdateLastLogin(c, id, t) ==
    [c EXCEPT !.users =
        {IF u.user_id = id THEN [u EXCEPT !.last_login = t] ELSE u : u \in @}]

\* an update that sets a cancelled subscription back to active
UpdateSubscriptionStatusToggle(c, id, st) ==
    [c EXCEPT !.subscriptions =
        [i \in 1..Len(@) |->
            IF @[i].subscription_id = id
            THEN [@[i] EXCEPT !.status = IF @ = st THEN "active" ELSE st]
            ELSE @[i]]]

\* UPDATE subscriptions SET status = st WHERE subscription_id = id
UpdateSubscriptionStatus(c, id, st) ==
    [c EXCEPT !.subscriptions =
        [i \in 1..Len(@) |->
            IF @[i].subscription_id = id THEN [@[i] EXCEPT !.status = st] ELSE @[i]]]

\* an existence check that looks at the username only
SelectUsersByNameOnly(c, username, email) == {u \in c.users : u.username = username}

\* SELECT * FROM users WHERE username = ? OR email = ?
SelectUsersByNameOrEmail(c, username, email) ==
    {u \in c.users : u.username = username \/ u.email = email}

\* SELECT * FROM users WHERE username = ?
SelectUsersByName(c, username) == {u \in c.users : u.username = username}

\* SELECT user_id FROM subscriptions WHERE subscription_id = ?
SelectSubscription(c, id) ==
    {i \in 1..Len(c.subscriptions) : c.subscriptions[i].subscription_id = id}

\* a query that leaves the badge out of its WHERE clause
SelectUserBadgeAnyBadge(c, user_id, badge_id) ==
    {b \in c.user_badges : b.user_id = user_id}

\* SELECT * FROM user_badges WHERE user_id = ? AND badge_id = ?
SelectUserBadge(c, user_id, badge_id) ==
    {b \in c.user_badges : b.user_id = user_id /\ b.badge_id = badge_id}

\* an INSERT INTO user_badges that writes nothing
InsertUserBadgeLost(c, row) == c

\* INSERT INTO user_badges VALUES (user_id, badge_id, earned_date). A table keeps
\* equal rows apart by their implicit rowid: here the rowid counts the rows of the
\* same (user_id, badge_id), so that runs differing only in the order of inserts
\* for different pairs are one run.
InsertUserBadge(c, row) ==
    [c EXCEPT !.user_badges =
        @ \cup {[user_id |-> row.user_id, badge_id |-> row.badge_id,
                 earned_date |-> row.earned_date,
                 rowid |-> Cardinality(SelectUserBadge(c, row.user_id, row.badge_id)) + 1]}]

\* SELECT badge_id FROM badges WHERE name = ?, fetchone()["badge_id"]
BadgeIdByName(c, name) == (CHOOSE b \in c.badges : b.name = name).badge_id

\* SELECT COUNT(*) FROM trail_history WHERE user_id = ?
TrailCount(c, user_id) == Cardinality({r \in c.trail_history : r.user_id = user_id})

\* SELECT COUNT(*) FROM sightings WHERE user_id = ?
SightingCount(c, user_id) == Cardinality({r \in c.sightings : r.user_id = user_id})

\* SELECT COUNT(DISTINCT species) FROM sightings WHERE user_id = ?
SpeciesCount(c, user_id) ==
    Cardinality({r.species : r \in {q \in c.sightings : q.user_id = user_id}})

\* SELECT COUNT(*) FROM trail_history th JOIN trails t ON th.trail_id = t.trail_id
\* WHERE th.user_id = ? AND t.difficulty = 'Hard' AND t.elevation_gain > 1000
HardTrailCount(c, user_id) ==
    Cardinality({r \in c.trail_history :
                    /\ r.user_id = user_id
                    /\ \E t \in c.trails : /\ t.trail_id = r.trail_id
                                            /\ t.difficulty = "Hard"
                                            /\ t.elevation_gain > 1000})

\* INSERT INTO sightings VALUES (...): the sighting_id is the caller's; here it
\* names the user, the species and the number of the sighting among the user's
\* sightings of that species
InsertSighting(c, user_id, species) ==
    LET n == Cardinality({r \in c.sightings : r.user_id = user_id /\ r.species = species})
    IN [c EXCEPT !.sightings =
           @ \cup {[sighting_id |-> <<"sighting", user_id, species, n + 1>>,
                    user_id |-> user_id, species |-> species]}]

\* a trail_history row as the collaborator that records completions writes it: the
\* history_id names the user, the trail and the number of the completion among
\* the user's completions of that trail
InsertTrailHistory(c, user_id, trail_id) ==
    LET n == Cardinality({r \in c.trail_history :
                             r.user_id = user_id /\ r.trail_id = trail_id})
    IN [c EXCEPT !.trail_history =
           @ \cup {[history_id |-> <<"history", user_id, trail_id, n + 1>>,
                    user_id |-> user_id, trail_id |-> trail_id]}]

UserIds(c) == {u.user_id : u \in c.users}
SubscriptionIds(c) == {c.subscriptions[i].subscription_id : i \in 1..Len(c.subscriptions)}

\* the ids in use: in the connection, on disk, or held by a handler that is running
UsedIds ==
    UserIds(conn) \cup UserIds(disk) \cup SubscriptionIds(conn) \cup SubscriptionIds(disk)
    \cup {b.badge_id : b \in SampleBadges}
    \cup {t.trail_id : t \in conn.trails} \cup {t.trail_id : t \in disk.trails}
    \cup {loc[h].subscription_id : h \in {g \in DOMAIN loc : pc[g] # "idle"}}
    \cup {loc[h].user_id : h \in {g \in DOMAIN loc : pc[g] # "idle"}}

\* uuid.uuid4(): an id in use nowhere
uuid4 ==
    CHOOSE n \in 1..(Cardinality(UsedIds) + 1) :
        n \notin UsedIds /\ \A m \in 1..(n - 1) : m \in UsedIds

\* no exception
NoError == "no error"

\* the local variables of a handler that has not started
NoLocals == [user_id |-> NoSuchId, subscription_id |-> NoSuchId, ok |-> FALSE, e |-> NoError]

\* what a call returns, under its name: the (success, value) pair of a handler that
\* returns one, e being the text of the exception it caught and put into its message
\* (str(e)); for a method that returns a bare value, ok says that it returned (no
\* exception left it) and val is the value
Ret(op, ok, val, e) == [op |-> op, ok |-> ok, val |-> val, e |-> e]

(* ------------------------- AuthenticationManager ----------------------- *)
\* _hash_password(password, salt): PBKDF2-HMAC-SHA256, injective in (password, salt)
hash_password(password, salt) == <<"pbkdf2", password, salt>>

\* the users row register_user inserts
UserRow(user_id, username, email, password, salt, user_type, t) ==
    [user_id |-> user_id, username |-> username, email |-> email,
     password_hash |-> hash_password(password, salt), salt |-> salt,
     user_type |-> user_type, created_at |-> isoformat(t), last_login |-> NULL]

\* register_user(username, email, password, user_type); salt is what os.urandom returns
register_user(username, email, password, user_type, salt) ==
    IF SelectUsersByNameOrEmail(conn, username, email) # {}
    THEN /\ ret' = Ret("register_user", FALSE, "Username or email already exists", NoError)
         /\ UNCHANGED <<disk, conn, now, current_user, sessions, pc, loc>>
    ELSE LET user_id == uuid4
             row == UserRow(user_id, username, email, password, salt, user_type, now)
         IN
         /\ IF UsersConstraintFails(conn, row)
            THEN /\ ret' = Ret("register_user", FALSE, "UNIQUE constraint failed",
                               "UNIQUE constraint failed")
                 /\ UNCHANGED <<disk, conn>>
            ELSE /\ conn' = InsertUser(conn, row)
                 /\ disk' = Commit(conn')
                 /\ ret' = Ret("register_user", TRUE, user_id, NoError)
         /\ UNCHANGED <<now, current_user, sessions, pc, loc>>

\* a failure of the password check that says which check failed
WrongPasswordMessageTelling == "Invalid password"

\* what authenticate returns when no row has the username
UnknownUsernameMessage == "Invalid username or password"
\* what authenticate returns when the hash of the password is not the stored one
WrongPasswordMessage == "Invalid username or password"

\* a verification that draws a new salt (salt=None) instead of using the stored one
VerificationSaltFresh(user_data) == "salt9"

\* the salt authenticate hashes the given password with
VerificationSalt(user_data) == user_data.salt

\* a failure return that also drops the session's user
FailedLoginClearsSession(message) ==
    /\ ret' = Ret("authenticate", FALSE, message, NoError)
    /\ current_user' = None
    /\ UNCHANGED <<disk, conn, now, sessions, pc, loc>>

\* a failure return of authenticate: return False, message
FailedLogin(message) ==
    /\ ret' = Ret("authenticate", FALSE, message, NoError)
    /\ UNCHANGED <<disk, conn, now, current_user, sessions, pc, loc>>

\* a user object that is a StandardUser whatever the stored user_type
PrincipalAlwaysStandard(user_data, username, t) ==
    StandardUser(user_data.user_id, username, user_data.email)

\* the user object authenticate creates for a users row, the clock reading t
PrincipalFor(user_data, username, t) ==
    IF user_data.user_type = "premium"
    THEN PremiumUser(user_data.user_id, username, user_data.email, t)
    ELSE StandardUser(user_data.user_id, username, user_data.email)

\* authenticate(username, password); the handler reads the clock at now (last_login),
\* at t2 (PremiumUser.__init__) and at t3 (record_login)
authenticate(username, password, t2, t3) ==
    LET found == SelectUsersByName(conn, username)
        user_data == CHOOSE u \in found : TRUE
    IN
    IF found = {}
    THEN FailedLogin(UnknownUsernameMessage)
    ELSE IF hash_password(password, VerificationSalt(user_data)) # user_data.password_hash
    THEN FailedLogin(WrongPasswordMessage)
    ELSE /\ conn' = UpdateLastLogin(conn, user_data.user_id, isoformat(now))
         /\ disk' = Commit(conn')
         /\ current_user' = record_login(PrincipalFor(user_data, username, t2), t3)
         /\ now' = t3
         /\ ret' = Ret("authenticate", TRUE, current_user', NoError)
         /\ UNCHANGED <<sessions, pc, loc>>

\* a logout that keeps the session's user object
logoutKeepsPrincipal ==
    /\ ret' = Ret("logout", TRUE, TRUE, NoError)
    /\ UNCHANGED <<disk, conn, now, current_user, sessions, pc, loc>>

\* logout()
logout ==
    /\ current_user' = None
    /\ ret' = Ret("logout", TRUE, TRUE, NoError)
    /\ UNCHANGED <<disk, conn, now, sessions, pc, loc>>

\* PremiumUser.renew_subscription(days), called on the session's user object
renew_subscription(days) ==
    /\ current_user.kind = "PremiumUser"
    /\ current_user' =
           [current_user EXCEPT
               !.subscription_expiry = RenewedExpiry(@, now, days)]
    /\ ret' = Ret("renew_subscription", TRUE, current_user'.subscription_expiry, NoError)
    /\ UNCHANGED <<disk, conn, now, sessions, pc, loc>>

(* ------------------------------ BadgeManager --------------------------- *)
\* an award_badge that reports True whether or not it inserted
AwardOutcomeAlwaysTrue(c, user_id, badge_id, t) ==
    LET row == [user_id |-> user_id, badge_id |-> badge_id, earned_date |-> isoformat(t)]
    IN IF SelectUserBadge(c, user_id, badge_id) # {}
       THEN [conn |-> c, awarded |-> TRUE, e |-> NoError]
       ELSE [conn |-> InsertUserBadge(c, row), awarded |-> TRUE, e |-> NoError]

\* award_badge(user_id, badge_id) on the connection's content c, the clock reading
\* t: the content it leaves, the value it returns and the exception that leaves it
AwardOutcome(c, user_id, badge_id, t) ==
    LET row == [user_id |-> user_id, badge_id |-> badge_id, earned_date |-> isoformat(t)]
    IN IF SelectUserBadge(c, user_id, badge_id) # {}
       THEN [conn |-> c, awarded |-> FALSE, e |-> NoError]
       ELSE IF UserBadgesConstraintFails(c, row)
       THEN [conn |-> c, awarded |-> FALSE, e |-> "UNIQUE constraint failed"]
       ELSE [conn |-> InsertUserBadge(c, row), awarded |-> TRUE, e |-> NoError]

\* award_badge(user_id, badge_id)
award_badge(user_id, badge_id) ==
    LET o == AwardOutcome(conn, user_id, badge_id, now)
    IN
    /\ IF o.e # NoError
       THEN /\ ret' = Ret("award_badge", FALSE, NULL, o.e)
            /\ UNCHANGED <<disk, conn>>
       ELSE IF o.awarded
       THEN /\ conn' = o.conn
            /\ disk' = Commit(conn')
            /\ ret' = Ret("award_badge", TRUE, TRUE, NoError)
       ELSE /\ ret' = Ret("award_badge", TRUE, FALSE, NoError)
            /\ UNCHANGED <<disk, conn>>
    /\ UNCHANGED <<now, current_user, sessions, pc, loc>>

\* the rule of Wildlife Spotter read off the total number of sightings
WildlifeSpotterRuleBySightings(k) == k.sighting_count >= 5

\* the counters check_badge_eligibility reads
ActivityCounters(c, user_id) ==
    [trail_count |-> TrailCount(c, user_id),
     sighting_count |-> SightingCount(c, user_id),
     species_count |-> SpeciesCount(c, user_id),
     hard_trail_count |-> HardTrailCount(c, user_id)]

\* a Trail Pioneer rule that asks for two completions
TrailPioneerRuleTwo(k) == k.trail_count >= 2

TrailPioneerRule(k) == k.trail_count >= 1
WildlifeSpotterRule(k) == k.species_count >= 5
MountainGoatRule(k) == k.hard_trail_count >= 1

\* a rule step that takes the badge away when the rule does not hold
RuleStepRevoking(prev, user_id, rule, name, t) ==
    IF prev.e # NoError
    THEN prev
    ELSE IF ~rule
    THEN [prev EXCEPT !.conn.user_badges =
             {r \in @ : ~(r.user_id = user_id
                          /\ r.badge_id = BadgeIdByName(prev.conn, name))}]
    ELSE LET o == AwardOutcome(prev.conn, user_id, BadgeIdByName(prev.conn, name), t)
         IN [conn |-> o.conn,
             awarded_badges |-> IF o.awarded THEN Append(prev.awarded_badges, name)
                                ELSE prev.awarded_badges,
             e |-> o.e]

\* one "if rule: if self.award_badge(...): awarded_badges.append(name)" of
\* check_badge_eligibility, started from the outcome prev of the ones before it;
\* an exception that left an earlier award_badge has left check_badge_eligibility
RuleStep(prev, user_id, rule, name, t) ==
    IF prev.e # NoError \/ ~rule
    THEN prev
    ELSE LET o == AwardOutcome(prev.conn, user_id, BadgeIdByName(prev.conn, name), t)
         IN [conn |-> o.conn,
             awarded_badges |-> IF o.awarded THEN Append(prev.awarded_badges, name)
                                ELSE prev.awarded_badges,
             e |-> o.e]

\* check_badge_eligibility(user_id) on the connection's content c, the clock
\* reading t: the content it leaves, the list it has built and the exception that
\* leaves it
EligibilityOutcome(c, user_id, t) ==
    LET k == ActivityCounters(c, user_id)
        o0 == [conn |-> c, awarded_badges |-> <<>>, e |-> NoError]
        o1 == RuleStep(o0, user_id, TrailPioneerRule(k), "Trail Pioneer", t)
        o2 == RuleStep(o1, user_id, WildlifeSpotterRule(k), "Wildlife Spotter", t)
    IN RuleStep(o2, user_id, MountainGoatRule(k), "Mountain Goat", t)

\* check_badge_eligibility(user_id)
check_badge_eligibility(user_id) ==
    LET o3 == EligibilityOutcome(conn, user_id, now)
    IN
    /\ conn' = o3.conn
    /\ disk' = IF o3.conn # conn THEN Commit(o3.conn) ELSE disk
    /\ ret' = IF o3.e # NoError
              THEN Ret("check_badge_eligibility", FALSE, o3.awarded_badges, o3.e)
              ELSE Ret("check_badge_eligibility", TRUE, o3.awarded_badges, NoError)
    /\ UNCHANGED <<now, current_user, sessions, pc, loc>>

(* ----------------------------- SightingManager ------------------------- *)
\* add_sighting(sighting), of the sighting's fields the two the counters read
add_sighting(user_id, species) ==
    /\ conn' = InsertSighting(conn, user_id, species)
    /\ disk' = Commit(conn')
    /\ ret' = Ret("add_sighting", TRUE,
                  <<"sighting", user_id, species,
                    Cardinality({r \in conn'.sightings :
                                    r.user_id = user_id /\ r.species = species})>>,
                  NoError)
    /\ UNCHANGED <<now, current_user, sessions, pc, loc>>

\* a trail completion is recorded (no method of the application writes trail_history)
complete_trail(user_id, trail_id) ==
    /\ conn' = InsertTrailHistory(conn, user_id, trail_id)
    /\ disk' = Commit(conn')
    /\ ret' = Ret("complete_trail", TRUE,
                  <<"history", user_id, trail_id,
                    Cardinality({r \in conn'.trail_history :
                                    r.user_id = user_id /\ r.trail_id = trail_id})>>,
                  NoError)
    /\ UNCHANGED <<now, current_user, sessions, pc, loc>>

(* ------------------------------ TrailManager --------------------------- *)
\* DELETE FROM trails WHERE trail_id = ? (no other table is touched: the store
\* does not enforce foreign keys and declares no cascade)
DeleteTrailRow(c, trail_id) ==
    [c EXCEPT !.trails = {t \in @ : t.trail_id # trail_id}]

\* delete_trail(trail_id); the result is cursor.rowcount > 0
delete_trail(trail_id) ==
    /\ conn' = DeleteTrailRow(conn, trail_id)
    /\ disk' = Commit(conn')
    /\ ret' = Ret("delete_trail", TRUE, conn'.trails # conn.trails, NoError)
    /\ UNCHANGED <<now, current_user, sessions, pc, loc>>

(* ----------------------------- PaymentManager -------------------------- *)
\* a catalog that has a weekly plan as well
subscription_plans_weekly ==
    [monthly |-> [name |-> "Monthly Premium", price_cents |-> 499, duration_days |-> 30,
                  stripe_price_id |-> "price_monthly_premium"],
     annual  |-> [name |-> "Annual Premium", price_cents |-> 4999, duration_days |-> 365,
                  stripe_price_id |-> "price_annual_premium"],
     weekly  |-> [name |-> "Weekly Premium", price_cents |-> 199, duration_days |-> 7,
                  stripe_price_id |-> "price_weekly_premium"]]

subscription_plans ==
    [monthly |-> [name |-> "Monthly Premium", price_cents |-> 499, duration_days |-> 30,
                  stripe_price_id |-> "price_monthly_premium"],
     annual  |-> [name |-> "Annual Premium", price_cents |-> 4999, duration_days |-> 365,
                  stripe_price_id |-> "price_annual_premium"]]

\* plan_type in self.subscription_plans
PlanTypes == DOMAIN subscription_plans

\* the status process_successful_payment gives the new row
NewSubscriptionStatus == "active"
\* the user_type process_successful_payment writes
PaidUserType == "premium"
\* the status and the user_type cancel_subscription writes
CancelledStatus == "cancelled"
CancelledUserTypeKept == "premium"
CancelledUserType == "standard"

\* the row process_successful_payment inserts; t1 and t2 are its two clock readings
NewSubscription(subscription_id, user_id, plan_type, payment_method, t1, t2) ==
    [subscription_id |-> subscription_id, user_id |-> user_id, plan_type |-> plan_type,
     start_date |-> isoformat(t1),
     end_date |-> isoformat(t2 + timedelta(subscription_plans[plan_type].duration_days)),
     status |-> NewSubscriptionStatus, payment_method |-> payment_method]

\* a checkout session that is handed out as paid
SessionPaymentStatusPaid == "paid"

\* the payment_status of the checkout session create_payment_session builds
SessionPaymentStatus == "unpaid"

\* create_payment_session(user_id, plan_type)
create_payment_session(user_id, plan_type) ==
    IF plan_type \notin PlanTypes
    THEN /\ ret' = Ret("create_payment_session", FALSE, "Invalid plan type", NoError)
         /\ UNCHANGED <<disk, conn, now, current_user, sessions, pc, loc>>
    ELSE LET checkout_session == [id |-> uuid4, url |-> "#demo-checkout-url",
                                  payment_status |-> SessionPaymentStatus]
         IN
         /\ ret' = Ret("create_payment_session", TRUE, checkout_session, NoError)
         /\ sessions' = sessions \cup {[user_id |-> user_id, plan_type |-> plan_type]}
         /\ UNCHANGED <<disk, conn, now, current_user, pc, loc>>

\* process_successful_payment(user_id, plan_type, payment_method).
\* fail names the statement that raises ("none": no statement raises); t2 is the
\* clock's second reading (end_date), the first (start_date) being now.
process_successful_payment(user_id, plan_type, payment_method, fail, t2) ==
    IF plan_type \notin PlanTypes
    THEN /\ ret' = Ret("process_successful_payment", FALSE, "Invalid plan type", NoError)
         /\ UNCHANGED <<disk, conn, now, current_user, sessions, pc, loc>>
    ELSE LET subscription_id == uuid4
             row == NewSubscription(subscription_id, user_id, plan_type,
                                    payment_method, now, t2)
             c1 == InsertSubscription(conn, row)
             c2 == UpdateUserType(c1, user_id, PaidUserType)
             failed == Ret("process_successful_payment", FALSE, "Payment processing failed", fail)
         IN
         /\ now' = t2
         /\ IF fail = "insert" \/ SubscriptionsConstraintFails(conn, row)
            THEN /\ conn' = Rollback(conn, disk)
                 /\ ret' = [failed EXCEPT !.e = "insert"]
                 /\ UNCHANGED disk
            ELSE IF fail = "update"
            THEN /\ conn' = Rollback(c1, disk)
                 /\ ret' = failed
                 /\ UNCHANGED disk
            ELSE IF fail = "commit"
            THEN /\ conn' = Rollback(c2, disk)
                 /\ ret' = failed
                 /\ UNCHANGED disk
            ELSE /\ conn' = c2
                 /\ disk' = Commit(c2)
                 /\ ret' = Ret("process_successful_payment", TRUE, subscription_id, NoError)
         /\ UNCHANGED <<current_user, sessions, pc, loc>>

\* cancel_subscription(subscription_id); fail names the statement that raises
cancel_subscription(subscription_id, fail) ==
    LET c1 == UpdateSubscriptionStatus(conn, subscription_id, CancelledStatus)
        result == SelectSubscription(c1, subscription_id)
        c2 == IF result # {}
              THEN UpdateUserType(c1, c1.subscriptions[CHOOSE i \in result : TRUE].user_id,
                                  CancelledUserType)
              ELSE c1
        failed == Ret("cancel_subscription", FALSE, "Failed to cancel subscription", fail)
    IN
    /\ IF fail = "status"
       THEN /\ conn' = Rollback(conn, disk)
            /\ ret' = failed
            /\ UNCHANGED disk
       ELSE IF fail = "tier" /\ result # {}
       THEN /\ conn' = Rollback(c1, disk)
            /\ ret' = failed
            /\ UNCHANGED disk
       ELSE IF fail = "commit"
       THEN /\ conn' = Rollback(c2, disk)
            /\ ret' = failed
            /\ UNCHANGED disk
       ELSE /\ conn' = c2
            /\ disk' = Commit(c2)
            /\ ret' = Ret("cancel_subscription", TRUE, "Subscription cancelled successfully", NoError)
    /\ UNCHANGED <<now, current_user, sessions, pc, loc>>

\* SELECT s.*, u.username FROM subscriptions s JOIN users u
\*   ON s.user_id = u.user_id WHERE s.subscription_id = ?
\* (an inner join: a subscription whose user_id is in no users row gives no row)
SelectSubscriptionWithUsername(c, id) ==
    {[subscription_id |-> c.subscriptions[j[1]].subscription_id,
      user_id         |-> c.subscriptions[j[1]].user_id,
      username        |-> j[2].username,
      plan_type       |-> c.subscriptions[j[1]].plan_type,
      start_date      |-> c.subscriptions[j[1]].start_date,
      end_date        |-> c.subscriptions[j[1]].end_date,
      status          |-> c.subscriptions[j[1]].status,
      payment_method  |-> c.subscriptions[j[1]].payment_method] :
        j \in {k \in SelectSubscription(c, id) \X c.users :
                  c.subscriptions[k[1]].user_id = k[2].user_id}}

\* get_subscription_status(subscription_id)
get_subscription_status(subscription_id) ==
    LET result == SelectSubscriptionWithUsername(conn, subscription_id)
    IN
    /\ ret' = IF result = {}
              THEN Ret("get_subscription_status", FALSE, "Subscription not found", NoError)
              ELSE Ret("get_subscription_status", TRUE, CHOOSE r \in result : TRUE, NoError)
    /\ UNCHANGED <<disk, conn, now, current_user, sessions, pc, loc>>

\* time passes between two calls
Tick ==
    /\ now < MaxClock
    /\ now' = now + 1
    /\ ret' = Ret("tick", TRUE, NULL, NoError)
    /\ UNCHANGED <<disk, conn, current_user, sessions, pc, loc>>

(* --------------------------- specifications ---------------------------- *)
Init ==
    /\ disk = EmptyDb
    /\ conn = EmptyDb
    /\ now = 0
    /\ current_user = None
    /\ ret = Ret("init", TRUE, NULL, NoError)
    /\ sessions = {}
    /\ pc = [h \in Handlers |-> "idle"]
    /\ loc = [h \in Handlers |-> NoLocals]

UserIdArgs == UserIds(conn) \cup {NoSuchId}
SubscriptionIdArgs == SubscriptionIds(conn) \cup {NoSuchId}
PayFailures == {"none", "insert", "update", "commit"}
CancelFailures == {"none", "status", "tier", "commit"}

\* the two accounts the lifecycle runs are about
Accounts == {<<"alice", "alice@x.org">>, <<"bob", "bob@x.org">>}

\* The subscription lifecycle, one call at a time: register_user as the
\* registration form calls it (user_type left at its default), payments by
\* card, the clock standing still.
RegisterUser ==
    \E a \in Accounts :
        register_user(a[1], a[2], "secret1", "standard", "salt1")

ProcessSuccessfulPayment ==
    /\ Len(conn.subscriptions) < MaxSubs
    /\ \E user_id \in UserIdArgs, plan_type \in LifecyclePlanArgs, payment_method \in {"card"},
          fail \in PayFailures, t2 \in {now} :
           process_successful_payment(user_id, plan_type, payment_method, fail, t2)

CancelSubscription ==
    \E subscription_id \in SubscriptionIdArgs, fail \in CancelFailures :
        cancel_subscription(subscription_id, fail)

Next ==
    \/ RegisterUser
    \/ ProcessSuccessfulPayment
    \/ CancelSubscription

Spec == Init /\ [][Next]_vars

(* ------------------- claims on the subscription lifecycle -------------- *)
\* the rows of a user's subscriptions, in the order they were created
OwnSubscriptions(c, user_id) ==
    {i \in 1..Len(c.subscriptions) : c.subscriptions[i].user_id = user_id}

\* whether the most recently created of a user's subscriptions is active
LatestSubscriptionActive(c, user_id) ==
    LET own == OwnSubscriptions(c, user_id)
    IN /\ own # {}
       /\ c.subscriptions[CHOOSE i \in own : \A j \in own : j <= i].status = "active"

ActiveSubscriptions(c, user_id) ==
    {i \in 1..Len(c.subscriptions) :
        c.subscriptions[i].user_id = user_id /\ c.subscriptions[i].status = "active"}

\* C1: in every reachable state a user's stored tier is premium if and only if
\* the user's most recently created subscription is active (no subscription:
\* standard).
C1_TierIffLatestActive ==
    \A u \in disk.users :
        (u.user_type = "premium") <=> LatestSubscriptionActive(disk, u.user_id)

\* C2: a process_successful_payment or cancel_subscription call one of whose two
\* writes raises (ret.e names the statement) returns a failure and keeps neither
\* write: the connection and the committed content are what they were before the
\* call.
C2_FailedCallKeepsNothing ==
    [][ (/\ ret'.op \in {"process_successful_payment", "cancel_subscription"}
         /\ ret'.e \in {"insert", "update", "status", "tier"})
            => (~ret'.ok /\ conn' = conn /\ disk' = disk)
      ]_vars

\* C2 witness: a payment has failed at its second write (the insert done), users
\* and an earlier subscription being in the store
C2_Witness ==
    /\ ret.op = "process_successful_payment"
    /\ ~ret.ok
    /\ ret.e = "update"
    /\ disk.users # {}
    /\ Len(disk.subscriptions) > 0

\* C5: cancel_subscription with an id that is not in the store returns a failure
\* and changes no row.
C5_CancelUnknownFails ==
    [][ ret'.op = "cancel_subscription" =>
            \A subscription_id \in SubscriptionIdArgs \ SubscriptionIds(conn),
               fail \in CancelFailures :
                cancel_subscription(subscription_id, fail)
                    => (~ret'.ok /\ conn' = conn /\ disk' = disk)
      ]_vars

\* C6: cancel_subscription with the id of an existing subscription (no statement
\* raising) returns success; afterwards that subscription is cancelled and its
\* owner's tier is standard.
C6_CancelExisting ==
    [][ ret'.op = "cancel_subscription" =>
            \A subscription_id \in SubscriptionIds(conn) :
                cancel_subscription(subscription_id, "none")
                    => /\ ret'.ok
                       /\ SelectSubscription(disk', subscription_id) # {}
                       /\ \A i \in SelectSubscription(disk', subscription_id) :
                              /\ disk'.subscriptions[i].status = "cancelled"
                              /\ \A u \in disk'.users :
                                     u.user_id = disk'.subscriptions[i].user_id
                                         => u.user_type = "standard"
      ]_vars

\* C6 witness: a cancel has succeeded and a cancelled subscription of a registered
\* user is in the store
C6_Witness ==
    /\ ret.op = "cancel_subscription"
    /\ ret.ok
    /\ \E i \in 1..Len(disk.subscriptions) :
           /\ disk.subscriptions[i].status = "cancelled"
           /\ \E u \in disk.users :
                  u.user_id = disk.subscriptions[i].user_id /\ u.user_type = "standard"

\* C7: in every reachable state a user has at most one active subscription.
C7_AtMostOneActive ==
    \A u \in disk.users : Cardinality(ActiveSubscriptions(disk, u.user_id)) <= 1

(* ------------------ payments with every field of the row varied -------- *)
\* the store after alice and bob have registered on day 0
RegisteredDb ==
    InsertUser(
        InsertUser(EmptyDb,
                   UserRow(6, "alice", "alice@x.org", "secret1", "salt1", "standard", 0)),
        UserRow(7, "bob", "bob@x.org", "secret2", "salt2", "standard", 0))

InitPayment ==
    /\ disk = RegisteredDb
    /\ conn = RegisteredDb
    /\ now = 0
    /\ current_user = None
    /\ ret = Ret("register_user", TRUE, 7, NoError)
    /\ sessions = {}
    /\ pc = [h \in Handlers |-> "idle"]
    /\ loc = [h \in Handlers |-> NoLocals]

Payment ==
    /\ Len(conn.subscriptions) < MaxPaid
    /\ \E user_id \in UserIdArgs, plan_type \in PlanArgs, payment_method \in PaymentMethods,
          fail \in PayFailures, t2 \in now..MaxClock :
           process_successful_payment(user_id, plan_type, payment_method, fail, t2)

NextPayment ==
    \/ Payment
    \/ Tick

SpecPayment == InitPayment /\ [][NextPayment]_vars

\* the days the claim gives each plan
ClaimedDays(plan_type) == IF plan_type = "monthly" THEN 30 ELSE 365

\* C4: a successful process_successful_payment(user, plan, method), the plan in
\* the catalog, returns the id of a new row that is active, has that user, plan and
\* method and end = start + the plan's days (30 monthly, 365 annual), and leaves
\* the user premium.
C4_PaymentRowExactEnd ==
    [][ (ret'.op = "process_successful_payment" /\ ret'.ok) =>
            \A user_id \in UserIdArgs, plan_type \in PlanTypes,
               payment_method \in PaymentMethods, t2 \in now..MaxClock :
                process_successful_payment(user_id, plan_type, payment_method, "none", t2)
                    => /\ ret'.val \notin SubscriptionIds(disk)
                       /\ Cardinality(SelectSubscription(disk', ret'.val)) = 1
                       /\ \A i \in SelectSubscription(disk', ret'.val) :
                              LET row == disk'.subscriptions[i]
                              IN /\ row.status = "active"
                                 /\ row.user_id = user_id
                                 /\ row.plan_type = plan_type
                                 /\ row.payment_method = payment_method
                                 /\ fromisoformat(row.end_date) =
                                        fromisoformat(row.start_date)
                                            + ClaimedDays(plan_type)
                       /\ \A u \in disk'.users :
                              u.user_id = user_id => u.user_type = "premium"
      ]_vars

(* ----------------------- checkout, then payment ------------------------ *)
CreatePaymentSession ==
    \E user_id \in UserIdArgs, plan_type \in LifecyclePlanArgs :
        create_payment_session(user_id, plan_type)

NextCheckout ==
    \/ RegisterUser
    \/ CreatePaymentSession
    \/ ProcessSuccessfulPayment

SpecCheckout == Init /\ [][NextCheckout]_vars

\* C8: every active subscription of a registered user was created after a
\* successful create_payment_session for the same user and plan.
C8_ActiveOnlyAfterSession ==
    \A i \in 1..Len(disk.subscriptions) :
        (/\ disk.subscriptions[i].status = "active"
         /\ disk.subscriptions[i].user_id \in UserIds(disk))
            => [user_id |-> disk.subscriptions[i].user_id,
                plan_type |-> disk.subscriptions[i].plan_type] \in sessions

(* ------------- process_successful_payment, handlers interleaved -------- *)
\* Each handler runs one process_successful_payment call on the one shared
\* connection; a step is one statement. A statement that raises takes the handler
\* to its except branch, whose rollback is part of the same step.

\* up to and including the INSERT
PayInsert(h, user_id, plan_type, payment_method, raises) ==
    /\ pc[h] = "idle"
    /\ IF plan_type \notin PlanTypes
       THEN /\ pc' = [pc EXCEPT ![h] = "done"]
            /\ loc' = [loc EXCEPT ![h] = [user_id |-> user_id, subscription_id |-> NoSuchId,
                                          ok |-> FALSE, e |-> NoError]]
            /\ UNCHANGED conn
       ELSE LET subscription_id == uuid4
                row == NewSubscription(subscription_id, user_id, plan_type,
                                       payment_method, now, now)
            IN IF raises \/ SubscriptionsConstraintFails(conn, row)
               THEN /\ conn' = Rollback(conn, disk)
                    /\ pc' = [pc EXCEPT ![h] = "done"]
                    /\ loc' = [loc EXCEPT ![h] = [user_id |-> user_id,
                                                  subscription_id |-> subscription_id,
                                                  ok |-> FALSE, e |-> "insert"]]
               ELSE /\ conn' = InsertSubscription(conn, row)
                    /\ pc' = [pc EXCEPT ![h] = "inserted"]
                    /\ loc' = [loc EXCEPT ![h] = [user_id |-> user_id,
                                                  subscription_id |-> subscription_id,
                                                  ok |-> FALSE, e |-> NoError]]
    /\ UNCHANGED <<disk, now, current_user, ret, sessions>>

\* the UPDATE of the user's tier
PayUpdate(h, raises) ==
    /\ pc[h] = "inserted"
    /\ IF raises
       THEN /\ conn' = Rollback(conn, disk)
            /\ pc' = [pc EXCEPT ![h] = "done"]
            /\ loc' = [loc EXCEPT ![h].e = "update"]
       ELSE /\ conn' = UpdateUserType(conn, loc[h].user_id, PaidUserType)
            /\ pc' = [pc EXCEPT ![h] = "updated"]
            /\ UNCHANGED loc
    /\ UNCHANGED <<disk, now, current_user, ret, sessions>>

\* self.db.commit() and the return
PayCommit(h, raises) ==
    /\ pc[h] = "updated"
    /\ IF raises
       THEN /\ conn' = Rollback(conn, disk)
            /\ loc' = [loc EXCEPT ![h].e = "commit"]
            /\ UNCHANGED disk
       ELSE /\ disk' = Commit(conn)
            /\ loc' = [loc EXCEPT ![h].ok = TRUE]
            /\ UNCHANGED conn
    /\ pc' = [pc EXCEPT ![h] = "done"]
    /\ UNCHANGED <<now, current_user, ret, sessions>>

HandlerInsert ==
    \E h \in Handlers, user_id \in UserIds(conn), plan_type \in LifecyclePlanArgs,
       raises \in BOOLEAN :
        PayInsert(h, user_id, plan_type, "card", raises)

HandlerUpdate == \E h \in Handlers, raises \in BOOLEAN : PayUpdate(h, raises)

HandlerCommit == \E h \in Handlers, raises \in BOOLEAN : PayCommit(h, raises)

NextHandlers ==
    \/ HandlerInsert
    \/ HandlerUpdate
    \/ HandlerCommit

SpecHandlers == InitPayment /\ [][NextHandlers]_vars

\* C3: whatever the interleaving, once the handlers have returned, every committed
\* active subscription has an owner whose committed tier is premium, and the
\* subscription row of a call that returned a failure is not committed.
C3_PaymentAtomicWhenInterleaved ==
    (\A h \in Handlers : pc[h] \in {"idle", "done"}) =>
        /\ \A i \in 1..Len(disk.subscriptions) :
               disk.subscriptions[i].status = "active" =>
                   \A u \in disk.users :
                       u.user_id = disk.subscriptions[i].user_id
                           => u.user_type = "premium"
        /\ \A h \in Handlers :
               (pc[h] = "done" /\ ~loc[h].ok)
                   => loc[h].subscription_id \notin SubscriptionIds(disk)

(* --------------------- a session of a premium user --------------------- *)
\* the store after alice and bob have registered and alice has paid for a month
PremiumDb ==
    UpdateUserType(
        InsertSubscription(RegisteredDb, NewSubscription(8, 6, "monthly", "card", 0, 0)),
        6, PaidUserType)

InitSession ==
    /\ disk = PremiumDb
    /\ conn = PremiumDb
    /\ now = 0
    /\ current_user = None
    /\ ret = Ret("process_successful_payment", TRUE, 8, NoError)
    /\ sessions = {}
    /\ pc = [h \in Handlers |-> "idle"]
    /\ loc = [h \in Handlers |-> NoLocals]

\* the days renew_subscription is called with: a day, and the default
RenewDays == {1, DefaultExpiryDays}

Authenticate ==
    \E username \in Usernames \cup {"carol"}, password \in Passwords,
       t2 \in now..MaxClock :
        \E t3 \in t2..MaxClock : authenticate(username, password, t2, t3)

Logout == logout

RenewSubscription == \E days \in RenewDays : renew_subscription(days)

NextSession ==
    \/ Authenticate
    \/ Logout
    \/ RenewSubscription
    \/ Tick

SpecSession == InitSession /\ [][NextSession]_vars

\* C9: renew_subscription(days) never moves the expiry back, whatever days and the
\* current expiry are, and the user object stays a PremiumUser with the store's
\* tier and subscriptions untouched (no pending-payment step).
C9_RenewNeverShortens ==
    [][ (ret'.op = "renew_subscription" /\ current_user.kind = "PremiumUser") =>
            /\ current_user'.kind = "PremiumUser"
            /\ current_user'.subscription_expiry >= current_user.subscription_expiry
            /\ disk' = disk
      ]_vars

(* ------------------------------ awards --------------------------------- *)
BadgeIdArgs == {b.badge_id : b \in conn.badges} \cup {NoSuchId}

AwardBadge ==
    \E user_id \in UserIdArgs, badge_id \in BadgeIdArgs : award_badge(user_id, badge_id)

NextBadge ==
    \/ AwardBadge

SpecBadge == InitPayment /\ [][NextBadge]_vars

\* C10: for every (user, badge) pair the first award_badge returns True and
\* inserts one user_badges row; a later call for the pair returns False, raises
\* nothing and changes nothing; either way exactly one row for the pair exists
\* afterwards.
C10_AwardIdempotent ==
    [][ ret'.op = "award_badge" =>
            \A user_id \in UserIdArgs, badge_id \in BadgeIdArgs :
                award_badge(user_id, badge_id) =>
                    /\ ret'.ok
                    /\ IF \E b \in conn.user_badges :
                              b.user_id = user_id /\ b.badge_id = badge_id
                       THEN ret'.val = FALSE /\ conn' = conn /\ disk' = disk
                       ELSE /\ ret'.val = TRUE
                            /\ Cardinality(conn'.user_badges)
                                   = Cardinality(conn.user_badges) + 1
                            /\ conn.user_badges \subseteq conn'.user_badges
                            /\ disk' = conn'
                    /\ Cardinality({b \in disk'.user_badges :
                                       b.user_id = user_id /\ b.badge_id = badge_id}) = 1
      ]_vars

\* C10 witness: a call has returned False for a pair that is held, another badge of
\* the same user being held as well
C10_Witness ==
    /\ ret.op = "award_badge"
    /\ ret.ok
    /\ ret.val = FALSE
    /\ \E b1 \in disk.user_badges, b2 \in disk.user_badges :
           b1.user_id = b2.user_id /\ b1.badge_id # b2.badge_id

(* ------------------- award_badge, handlers interleaved ----------------- *)
\* Each handler runs one award_badge call on the one shared connection; a step is
\* one statement. award_badge has no try: an exception of the INSERT leaves the
\* call (ok = FALSE: it returned nothing) and rolls nothing back.

\* the SELECT and the test of fetchone()
AwardSelect(h, user_id, badge_id) ==
    /\ pc[h] = "idle"
    /\ IF SelectUserBadge(conn, user_id, badge_id) # {}
       THEN /\ pc' = [pc EXCEPT ![h] = "done"]
            /\ loc' = [loc EXCEPT ![h] = [user_id |-> user_id, subscription_id |-> NoSuchId,
                                          badge_id |-> badge_id, ok |-> TRUE,
                                          val |-> FALSE, e |-> NoError]]
       ELSE /\ pc' = [pc EXCEPT ![h] = "selected"]
            /\ loc' = [loc EXCEPT ![h] = [user_id |-> user_id, subscription_id |-> NoSuchId,
                                          badge_id |-> badge_id, ok |-> FALSE,
                                          val |-> FALSE, e |-> NoError]]
    /\ UNCHANGED <<disk, conn, now, current_user, ret, sessions>>

\* the INSERT
AwardInsert(h) ==
    /\ pc[h] = "selected"
    /\ LET row == [user_id |-> loc[h].user_id, badge_id |-> loc[h].badge_id,
                   earned_date |-> isoformat(now)]
       IN IF UserBadgesConstraintFails(conn, row)
          THEN /\ pc' = [pc EXCEPT ![h] = "done"]
               /\ loc' = [loc EXCEPT ![h].e = "UNIQUE constraint failed"]
               /\ UNCHANGED conn
          ELSE /\ conn' = InsertUserBadge(conn, row)
               /\ pc' = [pc EXCEPT ![h] = "inserted"]
               /\ UNCHANGED loc
    /\ UNCHANGED <<disk, now, current_user, ret, sessions>>

\* self.db.commit() and return True
AwardCommit(h) ==
    /\ pc[h] = "inserted"
    /\ disk' = Commit(conn)
    /\ pc' = [pc EXCEPT ![h] = "done"]
    /\ loc' = [loc EXCEPT ![h].ok = TRUE, ![h].val = TRUE]
    /\ UNCHANGED <<conn, now, current_user, ret, sessions>>

\* the badges of the catalog, by id
BadgeIds(c) == {b.badge_id : b \in c.badges}

HandlerAwardSelect ==
    \E h \in Handlers, user_id \in UserIds(conn), badge_id \in BadgeIds(conn) :
        AwardSelect(h, user_id, badge_id)

HandlerAwardInsert == \E h \in Handlers : AwardInsert(h)

HandlerAwardCommit == \E h \in Handlers : AwardCommit(h)

NextAward ==
    \/ HandlerAwardSelect
    \/ HandlerAwardInsert
    \/ HandlerAwardCommit

SpecAward == InitPayment /\ [][NextAward]_vars

\* the handlers whose award_badge(user_id, badge_id) call has returned True
ReturnedTrue(user_id, badge_id) ==
    {h \in Handlers : /\ pc[h] = "done"
                      /\ loc[h].user_id = user_id
                      /\ loc[h].badge_id = badge_id
                      /\ loc[h].ok
                      /\ loc[h].val}

\* C11: in every interleaving of concurrent award_badge calls, neither the
\* connection nor the committed store holds more than one user_badges row for a
\* (user, badge) pair, and at most one call for a pair returns True.
C11_ConcurrentAwardNoDuplicate ==
    \A user_id \in UserIds(conn), badge_id \in BadgeIds(conn) :
        /\ Cardinality(SelectUserBadge(conn, user_id, badge_id)) <= 1
        /\ Cardinality(SelectUserBadge(disk, user_id, badge_id)) <= 1
        /\ Cardinality(ReturnedTrue(user_id, badge_id)) <= 1

\* C11 witness: two calls for one pair have both passed the existence check; one
\* has inserted, committed and returned True, the INSERT of the other has raised
C11_Witness ==
    \E h1 \in Handlers, h2 \in Handlers :
        /\ pc[h1] = "done" /\ pc[h2] = "done"
        /\ loc[h1].user_id = loc[h2].user_id
        /\ loc[h1].badge_id = loc[h2].badge_id
        /\ loc[h1].ok /\ loc[h1].val
        /\ ~loc[h2].ok /\ loc[h2].e = "UNIQUE constraint failed"
        /\ Cardinality(SelectUserBadge(disk, loc[h1].user_id, loc[h1].badge_id)) = 1

(* ------------------------------ achievements --------------------------- *)
\* INSERT INTO trails VALUES (...), of the trail's fields the ones the counters read
InsertTrail(c, trail) == [c EXCEPT !.trails = @ \cup {trail}]

\* the store after alice and bob have registered, three trails have been added,
\* and bob has logged a sighting and completed the first added trail
ActivityDb ==
    LET t1 == [trail_id |-> 8, name |-> "Granite Ridge", difficulty |-> "Hard",
               elevation_gain |-> 1500]
        t2 == [trail_id |-> 9, name |-> "Boulder Pass", difficulty |-> "Hard",
               elevation_gain |-> 1000]
        t3 == [trail_id |-> 10, name |-> "Summit Meadow", difficulty |-> "Moderate",
               elevation_gain |-> 1200]
    IN InsertTrailHistory(
           InsertSighting(InsertTrail(InsertTrail(InsertTrail(RegisteredDb, t1), t2), t3),
                          7, "elk"),
           7, 8)

InitAchievements ==
    /\ disk = ActivityDb
    /\ conn = ActivityDb
    /\ now = 0
    /\ current_user = None
    /\ ret = Ret("complete_trail", TRUE, <<"history", 7, 8, 1>>, NoError)
    /\ sessions = {}
    /\ pc = [h \in Handlers |-> "idle"]
    /\ loc = [h \in Handlers |-> NoLocals]

\* the species of the sightings, in the order a user comes to see them
SpeciesOrder == <<"elk", "marmot", "pika", "moose", "eagle", "bear">>

\* the species of a user's next sighting: the first one again, or the next one the
\* user has not seen
NextSpecies(c, user_id) ==
    {SpeciesOrder[1]} \cup
    {SpeciesOrder[i] : i \in {j \in 1..Len(SpeciesOrder) : j = SpeciesCount(c, user_id) + 1}}

\* the user whose activity grows
Hikers == {u.user_id : u \in {v \in conn.users : v.username = "alice"}}

AddSighting ==
    \E user_id \in Hikers :
        /\ SightingCount(conn, user_id) < MaxSightings
        /\ \E species \in NextSpecies(conn, user_id) : add_sighting(user_id, species)

CompleteTrail ==
    \E user_id \in Hikers :
        /\ TrailCount(conn, user_id) < MaxCompletions
        /\ \E trail_id \in {t.trail_id : t \in conn.trails} : complete_trail(user_id, trail_id)

CheckBadgeEligibility ==
    \E user_id \in UserIdArgs : check_badge_eligibility(user_id)

NextAchievements ==
    \/ AddSighting
    \/ CompleteTrail
    \/ CheckBadgeEligibility

SpecAchievements == InitAchievements /\ [][NextAchievements]_vars

\* the badges a user holds, by name
HeldBadgeNames(c, user_id) ==
    {b.name : b \in {x \in c.badges :
                        \E r \in c.user_badges :
                            r.user_id = user_id /\ r.badge_id = x.badge_id}}

\* the names in a list
Names(list) == {list[i] : i \in 1..Len(list)}

\* C12: the list check_badge_eligibility(user) returns holds, once each, exactly
\* the names of the badges for which the call inserted a user_badges row; a badge
\* the user held before the call is not in it; the call inserts rows of that user
\* only.
C12_ReturnsNewlyAwarded ==
    [][ ret'.op = "check_badge_eligibility" =>
            \A user_id \in UserIdArgs :
                check_badge_eligibility(user_id) =>
                    /\ ret'.ok
                    /\ Names(ret'.val) =
                           HeldBadgeNames(conn', user_id) \ HeldBadgeNames(conn, user_id)
                    /\ Len(ret'.val) = Cardinality(Names(ret'.val))
                    /\ Names(ret'.val) \cap HeldBadgeNames(conn, user_id) = {}
                    /\ \A r \in conn'.user_badges \ conn.user_badges : r.user_id = user_id
                    /\ Cardinality(conn'.user_badges \ conn.user_badges) = Len(ret'.val)
      ]_vars

\* C12 witness: a call has returned Wildlife Spotter alone for a user who held
\* Trail Pioneer before it and whose Trail Pioneer rule still holds
C12_Witness ==
    /\ ret.op = "check_badge_eligibility"
    /\ ret.ok
    /\ ret.val = <<"Wildlife Spotter">>
    /\ \E user_id \in UserIds(disk) :
           /\ HeldBadgeNames(disk, user_id) = {"Trail Pioneer", "Wildlife Spotter"}
           /\ TrailCount(disk, user_id) >= 1

\* C13: for a user holding no badge, check_badge_eligibility awards Trail Pioneer
\* iff the user's completed-trail count is >= 1, Wildlife Spotter iff the
\* distinct-species count is >= 5 and Mountain Goat iff the count of completed
\* trails that are Hard with an elevation gain > 1000 is >= 1; with 0 trails, 6
\* species and 0 hard trails it awards exactly Wildlife Spotter.
C13_RulesAwarded ==
    [][ ret'.op = "check_badge_eligibility" =>
            \A user_id \in UserIdArgs :
                (check_badge_eligibility(user_id) /\ HeldBadgeNames(conn, user_id) = {}) =>
                    /\ ret'.ok
                    /\ "Trail Pioneer" \in Names(ret'.val)
                           <=> TrailCount(conn, user_id) >= 1
                    /\ "Wildlife Spotter" \in Names(ret'.val)
                           <=> SpeciesCount(conn, user_id) >= 5
                    /\ "Mountain Goat" \in Names(ret'.val)
                           <=> HardTrailCount(conn, user_id) >= 1
                    /\ Names(ret'.val) = HeldBadgeNames(conn', user_id)
                    /\ (/\ TrailCount(conn, user_id) = 0
                        /\ SpeciesCount(conn, user_id) = 6
                        /\ HardTrailCount(conn, user_id) = 0)
                           => ret'.val = <<"Wildlife Spotter">>
      ]_vars

\* C13 witness: a call has awarded exactly Wildlife Spotter to a user with no
\* completed trail and six species
C13_Witness ==
    /\ ret.op = "check_badge_eligibility"
    /\ ret.ok
    /\ ret.val = <<"Wildlife Spotter">>
    /\ \E user_id \in UserIds(disk) :
           /\ HeldBadgeNames(disk, user_id) = {"Wildlife Spotter"}
           /\ TrailCount(disk, user_id) = 0
           /\ SpeciesCount(disk, user_id) = 6

\* C14: check_badge_eligibility raises nothing and removes no row; a second call
\* right after it, the activity unchanged, returns the empty list and changes
\* nothing; and no call, wherever it comes among new sightings and completions,
\* leaves two rows for one (user, badge) pair.
C14_Rerunnable ==
    [][ ret'.op = "check_badge_eligibility" =>
            \A user_id \in UserIdArgs :
                check_badge_eligibility(user_id) =>
                    LET again == EligibilityOutcome(conn', user_id, now')
                    IN /\ ret'.ok
                       /\ conn.user_badges \subseteq conn'.user_badges
                       /\ again.awarded_badges = <<>>
                       /\ again.conn = conn'
                       /\ again.e = NoError
                       /\ \A u \in UserIdArgs, b \in conn'.badges :
                              Cardinality({r \in conn'.user_badges :
                                              r.user_id = u /\ r.badge_id = b.badge_id}) <= 1
      ]_vars

\* C14 witness: a call has returned the empty list for a user who holds a badge
\* and whose activity has grown since the badge was earned
C14_Witness ==
    /\ ret.op = "check_badge_eligibility"
    /\ ret.ok
    /\ ret.val = <<>>
    /\ \E user_id \in UserIds(disk) :
           /\ HeldBadgeNames(disk, user_id) = {"Trail Pioneer"}
           /\ SightingCount(disk, user_id) >= 2

(* ------------------------------ registration --------------------------- *)
\* register_user with every combination of the names and addresses, either tier
Register ==
    \E username \in Usernames, email \in Emails, user_type \in UserTypes :
        register_user(username, email, "secret1", user_type, "salt1")

NextRegister ==
    \/ Register
    \/ Tick

SpecRegister == Init /\ [][NextRegister]_vars

\* C15: register_user with a username some user has (whatever the email) or an
\* email some user has (whatever the username) returns the failure "Username or
\* email already exists", inserts no row and changes no row.
C15_DuplicateIdentityRejected ==
    [][ ret'.op = "register_user" =>
            \A username \in Usernames, email \in Emails, user_type \in UserTypes :
                (/\ register_user(username, email, "secret1", user_type, "salt1")
                 /\ \E u \in conn.users : u.username = username \/ u.email = email)
                    => /\ ~ret'.ok
                       /\ ret'.val = "Username or email already exists"
                       /\ conn' = conn
                       /\ disk' = disk
      ]_vars

\* C15 witness: a registration has been refused, the store holding a user with
\* the same email under another username
C15_Witness ==
    /\ ret.op = "register_user"
    /\ ~ret.ok
    /\ Cardinality(disk.users) = 1
    /\ \E u \in disk.users : u.username = "bob" /\ u.email = "alice@x.org"

(* ------------------- register_user, handlers interleaved --------------- *)
\* Each handler runs one register_user call on the one shared connection; a step
\* is one statement. The except branch returns (False, str(e)) and rolls nothing
\* back.

\* the SELECT and the test of fetchone(); then uuid4, the hash and the clock
RegSelect(h, username, email) ==
    /\ pc[h] = "idle"
    /\ IF SelectUsersByNameOrEmail(conn, username, email) # {}
       THEN /\ pc' = [pc EXCEPT ![h] = "done"]
            /\ loc' = [loc EXCEPT ![h] = [user_id |-> NoSuchId, subscription_id |-> NoSuchId,
                                          username |-> username, email |-> email,
                                          ok |-> FALSE, e |-> NoError]]
       ELSE /\ pc' = [pc EXCEPT ![h] = "checked"]
            /\ loc' = [loc EXCEPT ![h] = [user_id |-> uuid4, subscription_id |-> NoSuchId,
                                          username |-> username, email |-> email,
                                          ok |-> FALSE, e |-> NoError]]
    /\ UNCHANGED <<disk, conn, now, current_user, ret, sessions>>

\* the INSERT
RegInsert(h) ==
    /\ pc[h] = "checked"
    /\ LET row == UserRow(loc[h].user_id, loc[h].username, loc[h].email,
                          "secret1", "salt1", "standard", now)
       IN IF UsersConstraintFails(conn, row)
          THEN /\ pc' = [pc EXCEPT ![h] = "done"]
               /\ loc' = [loc EXCEPT ![h].e = "UNIQUE constraint failed"]
               /\ UNCHANGED conn
          ELSE /\ conn' = InsertUser(conn, row)
               /\ pc' = [pc EXCEPT ![h] = "inserted"]
               /\ UNCHANGED loc
    /\ UNCHANGED <<disk, now, current_user, ret, sessions>>

\* self.db.commit() and return True, user_id
RegCommit(h) ==
    /\ pc[h] = "inserted"
    /\ disk' = Commit(conn)
    /\ pc' = [pc EXCEPT ![h] = "done"]
    /\ loc' = [loc EXCEPT ![h].ok = TRUE]
    /\ UNCHANGED <<conn, now, current_user, ret, sessions>>

HandlerRegSelect ==
    \E h \in Handlers, username \in Usernames, email \in Emails : RegSelect(h, username, email)

HandlerRegInsert == \E h \in Handlers : RegInsert(h)

HandlerRegCommit == \E h \in Handlers : RegCommit(h)

NextRegisterHandlers ==
    \/ HandlerRegSelect
    \/ HandlerRegInsert
    \/ HandlerRegCommit

SpecRegisterHandlers == Init /\ [][NextRegisterHandlers]_vars

\* no two rows of the users table share a username or an email
UniqueIdentities(c) ==
    \A u1 \in c.users, u2 \in c.users :
        u1 # u2 => (u1.username # u2.username /\ u1.email # u2.email)

\* C16: in every interleaving of concurrent register_user calls no two user rows,
\* in the connection or committed, share a username or an email, and of two calls
\* with the same username or the same email at most one returns success.
C16_ConcurrentRegisterUnique ==
    /\ UniqueIdentities(conn)
    /\ UniqueIdentities(disk)
    /\ \A h1 \in Handlers, h2 \in Handlers :
           (/\ h1 # h2
            /\ pc[h1] = "done" /\ pc[h2] = "done"
            /\ loc[h1].ok /\ loc[h2].ok)
               => (/\ loc[h1].username # loc[h2].username
                   /\ loc[h1].email # loc[h2].email)

\* C16 witness: two calls with one username and different emails have both passed
\* the existence check; one has committed its row, the INSERT of the other has
\* raised
C16_Witness ==
    \E h1 \in Handlers, h2 \in Handlers :
        /\ pc[h1] = "done" /\ pc[h2] = "done"
        /\ loc[h1].username = loc[h2].username
        /\ loc[h1].email # loc[h2].email
        /\ loc[h1].ok
        /\ ~loc[h2].ok /\ loc[h2].e = "UNIQUE constraint failed"
        /\ Cardinality(disk.users) = 1

(* --------------------------- authentication --------------------------- *)
\* the usernames a login is tried with: the registered ones and one that is not
LoginNames == Usernames \cup {"carol"}

\* C17: authenticate with a username no row has, and authenticate with a
\* registered username and a password that is not the user's, return the same
\* failure value and leave the same state (nothing changes), so the result does
\* not tell the two cases apart; a login that succeeds is one of a registered user
\* with that user's password.
C17_SameFailureForBothCases ==
    [][ /\ (ret'.op = "authenticate" /\ ~ret'.ok) =>
                \A username \in LoginNames, password \in Passwords :
                    (/\ \/ SelectUsersByName(conn, username) = {}
                        \/ \E u \in SelectUsersByName(conn, username) :
                               u.password_hash # hash_password(password, u.salt)
                     /\ authenticate(username, password, now, now))
                        => /\ ret' = Ret("authenticate", FALSE,
                                         "Invalid username or password", NoError)
                           /\ UNCHANGED <<disk, conn, now, current_user>>
        /\ (ret'.op = "authenticate" /\ ret'.ok) =>
                \E u \in conn.users, password \in Passwords :
                    /\ u.user_id = ret'.val.user_id
                    /\ u.password_hash = hash_password(password, u.salt)
      ]_vars

\* C17 witness: a login has failed while a user is logged in
C17_Witness ==
    /\ ret.op = "authenticate"
    /\ ~ret.ok
    /\ current_user.kind # "None"

\* C18: a successful authenticate(username, password) stores the clock's reading
\* as that user's last_login, changes no other row, and returns (and keeps as
\* current_user) a principal of that user whose permissions are the standard set
\* when the tier stored at the call is 'standard' and the premium set when it is
\* 'premium'.
C18_LoginPrincipalMatchesTier ==
    [][ (ret'.op = "authenticate" /\ ret'.ok) =>
            \E u \in conn.users :
                /\ ret'.val.user_id = u.user_id
                /\ ret'.val.username = u.username
                /\ ret'.val.email = u.email
                /\ current_user' = ret'.val
                /\ Names(get_permissions(ret'.val)) =
                       IF u.user_type = "premium"
                       THEN {"view_trails", "log_sightings", "view_own_history",
                             "download_trail_maps", "advanced_analytics",
                             "ad_free_experience", "exclusive_content"}
                       ELSE {"view_trails", "log_sightings", "view_own_history"}
                /\ disk'.users = (disk.users \ {u})
                                     \cup {[u EXCEPT !.last_login = isoformat(now)]}
                /\ [u EXCEPT !.last_login = isoformat(now)] \in disk'.users
      ]_vars

\* C18 witness: the premium user has logged in on a later day than the last login
\* before, and the store holds that day
C18_Witness ==
    /\ ret.op = "authenticate"
    /\ ret.ok
    /\ ret.val.kind = "PremiumUser"
    /\ \E u \in disk.users :
           /\ u.user_id = ret.val.user_id
           /\ u.user_type = "premium"
           /\ u.last_login # NULL
           /\ fromisoformat(u.last_login) > 0

\* C19: the permissions of a PremiumUser are the three standard permissions and
\* the four premium ones, each once and nothing else, a strict superset of the
\* permissions of a StandardUser, which are the three standard ones.
C19_PremiumStrictSuperset ==
    current_user.kind # "None" =>
        LET p == get_permissions(current_user)
            standard == {"view_trails", "log_sightings", "view_own_history"}
            extra == {"download_trail_maps", "advanced_analytics", "ad_free_experience",
                      "exclusive_content"}
        IN IF current_user.kind = "PremiumUser"
           THEN /\ Names(p) = standard \cup extra
                /\ Len(p) = Cardinality(standard \cup extra)
                /\ Names(p) \ Names(StandardPermissions) = extra
                /\ Names(StandardPermissions) \subseteq Names(p)
                /\ Names(StandardPermissions) # Names(p)
           ELSE /\ Names(p) = standard
                /\ Len(p) = Cardinality(standard)

\* C19 witness: the session's user is a PremiumUser
C19_Witness == current_user.kind = "PremiumUser" /\ ret.op = "authenticate"

(* ------------------- tier changes during a session --------------------- *)
\* logins of the registered users, the clock standing still
Login ==
    \E username \in Usernames, password \in Passwords :
        authenticate(username, password, now, now)

TierPayment ==
    /\ Len(conn.subscriptions) < MaxPaid
    /\ \E user_id \in UserIds(conn), fail \in {"none", "update"} :
           process_successful_payment(user_id, "monthly", "card", fail, now)

TierCancel ==
    \E subscription_id \in SubscriptionIds(conn) : cancel_subscription(subscription_id, "none")

NextTier ==
    \/ Login
    \/ Logout
    \/ TierPayment
    \/ TierCancel

SpecTier == InitPayment /\ [][NextTier]_vars

\* C20: process_successful_payment and cancel_subscription leave the session's
\* principal, and so its permissions, as they were; the principal of the next
\* successful authenticate has the permissions of the tier the store holds then.
C20_TierChangeOnNextLogin ==
    [][ /\ ret'.op \in {"process_successful_payment", "cancel_subscription"}
            => /\ current_user' = current_user
               /\ current_user.kind # "None"
                      => get_permissions(current_user') = get_permissions(current_user)
        /\ (ret'.op = "authenticate" /\ ret'.ok)
            => \E u \in disk.users :
                   /\ u.user_id = current_user'.user_id
                   /\ get_permissions(current_user') =
                          IF u.user_type = "premium" THEN PremiumPermissions
                          ELSE StandardPermissions
      ]_vars

\* C20 witness: a user who logged in as standard and then paid has logged in again
\* and is a PremiumUser, the subscription being active
C20_Witness ==
    /\ ret.op = "authenticate"
    /\ ret.ok
    /\ current_user.kind = "PremiumUser"
    /\ \E i \in 1..Len(disk.subscriptions) :
           /\ disk.subscriptions[i].user_id = current_user.user_id
           /\ disk.subscriptions[i].status = "active"

(* ------------------------------ credentials ---------------------------- *)
\* registrations of the two accounts with either password, the salt being
\* whichever os.urandom returns
RegisterCredentials ==
    \E a \in Accounts, password \in Passwords, salt \in Salts :
        register_user(a[1], a[2], password, "standard", salt)

\* logins with every name and password, the clock standing still
LoginAny ==
    \E username \in LoginNames, password \in Passwords :
        authenticate(username, password, now, now)

NextCredentials ==
    \/ RegisterCredentials
    \/ LoginAny
    \/ Logout
    \/ TierPayment

SpecCredentials == Init /\ [][NextCredentials]_vars

\* the password a users row was registered with: the hash being injective in
\* (password, salt), the one password whose hash under the row's salt is stored
RegisteredPassword(u) ==
    CHOOSE p \in Passwords : hash_password(p, u.salt) = u.password_hash

\* C21: a successful register_user(username, email, p) stores a row whose hash is
\* that of p under the row's salt; no later step changes or removes a stored
\* (username, hash, salt); and authenticate(username, q) succeeds if and only if a
\* row has the username and q is the password it was registered with.
C21_PasswordVerifies ==
    [][ /\ (ret'.op = "register_user" /\ ret'.ok) =>
                \A a \in Accounts, password \in Passwords, salt \in Salts :
                    register_user(a[1], a[2], password, "standard", salt) =>
                        \E u \in disk'.users \ disk.users :
                            /\ u.username = a[1]
                            /\ \E p \in Passwords : hash_password(p, u.salt) = u.password_hash
                            /\ RegisteredPassword(u) = password
        /\ \A u \in disk.users :
               \E v \in disk'.users :
                   /\ v.user_id = u.user_id /\ v.username = u.username
                   /\ v.password_hash = u.password_hash /\ v.salt = u.salt
        /\ ret'.op = "authenticate" =>
                \A username \in LoginNames, password \in Passwords :
                    authenticate(username, password, now, now) =>
                        (ret'.ok <=> \E u \in conn.users :
                                        /\ u.username = username
                                        /\ RegisteredPassword(u) = password)
      ]_vars

\* C21 witness: a user registered with the second password and the second salt
\* has logged in after a payment and a failed login did not end the session
C21_Witness ==
    /\ ret.op = "authenticate"
    /\ ~ret.ok
    /\ current_user.kind = "PremiumUser"
    /\ \E u \in disk.users :
           /\ u.user_id = current_user.user_id
           /\ u.salt = "salt2"
           /\ RegisteredPassword(u) = "secret2"

(* ------------------------- sessions and the catalog -------------------- *)
\* create_payment_session with every plan argument, among payments
RequestSession ==
    \E user_id \in UserIdArgs, plan_type \in PlanArgs :
        create_payment_session(user_id, plan_type)

NextCatalog ==
    \/ RequestSession
    \/ TierPayment

SpecCatalog == InitPayment /\ [][NextCatalog]_vars

\* C22: create_payment_session(user, plan) returns the failure "Invalid plan type"
\* if and only if plan is neither 'monthly' nor 'annual', and otherwise a session
\* whose payment_status is 'unpaid'; either way the store is as it was (no
\* subscription row, no tier).
C22_SessionRequest ==
    [][ ret'.op = "create_payment_session" =>
            \A user_id \in UserIdArgs, plan_type \in PlanArgs :
                create_payment_session(user_id, plan_type) =>
                    /\ IF plan_type \in {"monthly", "annual"}
                       THEN ret'.ok /\ ret'.val.payment_status = "unpaid"
                       ELSE ~ret'.ok /\ ret'.val = "Invalid plan type"
                    /\ disk' = disk
                    /\ conn' = conn
      ]_vars

\* C22 witness: a session for the annual plan has been handed to a user who has
\* an active subscription
C22_Witness ==
    /\ ret.op = "create_payment_session"
    /\ ret.ok
    /\ [user_id |-> 6, plan_type |-> "annual"] \in sessions
    /\ Len(disk.subscriptions) > 0

\* C23: process_successful_payment with a plan that is neither 'monthly' nor
\* 'annual' returns the failure "Invalid plan type", inserts no subscription row
\* and leaves every user's tier (the whole store) as it was.
C23_UnknownPlanRejected ==
    [][ ret'.op = "process_successful_payment" =>
            \A user_id \in UserIdArgs, plan_type \in PlanArgs \ {"monthly", "annual"},
               payment_method \in PaymentMethods, fail \in PayFailures, t2 \in now..MaxClock :
                process_successful_payment(user_id, plan_type, payment_method, fail, t2) =>
                    /\ ~ret'.ok
                    /\ ret'.val = "Invalid plan type"
                    /\ disk' = disk
                    /\ conn' = conn
      ]_vars

\* C23 witness: a payment has been refused for its plan on a later day
C23_Witness ==
    /\ ret.op = "process_successful_payment"
    /\ ~ret.ok
    /\ ret.val = "Invalid plan type"
    /\ now > 0

(* --------------------------- subscription status ----------------------- *)
GetSubscriptionStatus ==
    \E subscription_id \in SubscriptionIdArgs :
        get_subscription_status(subscription_id)

\* payments and cancellations for the registered users and for a user id that
\* is in no row, with status queries in between
NextStatus ==
    \/ ProcessSuccessfulPayment
    \/ CancelSubscription
    \/ GetSubscriptionStatus

SpecStatus == InitPayment /\ [][NextStatus]_vars

\* C24: get_subscription_status changes nothing in the store; for the id of a
\* stored subscription it returns success with that row's fields, and for an id
\* in no row it returns the failure "Subscription not found".
C24_StatusReadOnly ==
    [][ ret'.op = "get_subscription_status" =>
            \A subscription_id \in SubscriptionIdArgs :
                get_subscription_status(subscription_id) =>
                    /\ disk' = disk
                    /\ conn' = conn
                    /\ IF subscription_id \in SubscriptionIds(conn)
                       THEN /\ ret'.ok
                            /\ \E i \in SelectSubscription(conn, subscription_id) :
                                   /\ ret'.val.user_id = conn.subscriptions[i].user_id
                                   /\ ret'.val.plan_type = conn.subscriptions[i].plan_type
                                   /\ ret'.val.status = conn.subscriptions[i].status
                                   /\ ret'.val.start_date = conn.subscriptions[i].start_date
                                   /\ ret'.val.end_date = conn.subscriptions[i].end_date
                                   /\ \E u \in conn.users :
                                          /\ u.user_id = ret'.val.user_id
                                          /\ u.username = ret'.val.username
                       ELSE /\ ~ret'.ok
                            /\ ret'.val = "Subscription not found"
      ]_vars

(* ------------------------------- frames -------------------------------- *)
\* C25: the stored tier of an existing user changes only in a step of
\* process_successful_payment or cancel_subscription, and a user that a step
\* creates is not 'premium' unless a subscription of that user is stored.
C25_TierOnlyByLifecycle ==
    [][ /\ \A u \in disk.users, v \in disk'.users :
              (v.user_id = u.user_id /\ v.user_type # u.user_type) =>
                  ret'.op \in {"process_successful_payment", "cancel_subscription"}
        /\ \A v \in disk'.users :
              (v.user_id \notin UserIds(disk) /\ v.user_type = "premium") =>
                  \E i \in 1..Len(disk'.subscriptions) :
                      disk'.subscriptions[i].user_id = v.user_id
      ]_vars

\* C26: logout sets current_user to None and leaves the store (every row, with
\* its last_login and user_type) as it was.
C26_LogoutDiscardsPrincipal ==
    [][ ret'.op = "logout" =>
            (logout => /\ current_user' = None
                       /\ disk' = disk
                       /\ conn' = conn)
      ]_vars

\* C26 witness: a premium user who had logged in has logged out; the login's
\* last_login is still in the user's row
C26_Witness ==
    /\ ret.op = "logout"
    /\ current_user = None
    /\ \E u \in disk.users : u.user_type = "premium" /\ u.last_login # NULL

\* C29: a subscription that is 'cancelled' is 'cancelled' after every step, in the
\* committed store and in the connection's view; in particular after a step that
\* cancels it again.
C29_CancelledIsTerminal ==
    [][ /\ \A i \in 1..Len(disk.subscriptions) :
              disk.subscriptions[i].status = "cancelled" =>
                  /\ i <= Len(disk'.subscriptions)
                  /\ disk'.subscriptions[i].subscription_id = disk.subscriptions[i].subscription_id
                  /\ disk'.subscriptions[i].status = "cancelled"
        /\ \A i \in 1..Len(conn.subscriptions) :
              (conn.subscriptions[i].status = "cancelled" /\ i <= Len(conn'.subscriptions)) =>
                  conn'.subscriptions[i].status # "active"
        /\ ret'.op = "cancel_subscription" =>
              \A subscription_id \in SubscriptionIdArgs, fail \in CancelFailures :
                  cancel_subscription(subscription_id, fail) =>
                      \A i \in SelectSubscription(disk, subscription_id) :
                          disk.subscriptions[i].status = "cancelled" =>
                              disk'.subscriptions[i].status = "cancelled"
      ]_vars

\* C29 witness: a user's first subscription is cancelled, the user has paid again
\* (a second, active subscription), and a cancel of the first has then returned:
\* the user's tier is standard beside an active subscription
C29_Witness ==
    /\ ret.op = "cancel_subscription"
    /\ ret.ok
    /\ Len(disk.subscriptions) = 2
    /\ disk.subscriptions[1].status = "cancelled"
    /\ disk.subscriptions[2].status = "active"
    /\ disk.subscriptions[1].user_id = disk.subscriptions[2].user_id
    /\ \E u \in disk.users :
           u.user_id = disk.subscriptions[1].user_id /\ u.user_type = "standard"

\* C30: an authenticate that returns a failure leaves the store (every
\* last_login) and current_user as they were.
C30_FailedLoginChangesNothing ==
    [][ (ret'.op = "authenticate" /\ ~ret'.ok) =>
            \A username \in LoginNames, password \in Passwords :
                authenticate(username, password, now, now) =>
                    /\ disk' = disk
                    /\ conn' = conn
                    /\ current_user' = current_user
      ]_vars

\* C30 witness: a login has failed while a premium user is logged in whose row
\* has the last_login of that user's login
C30_Witness ==
    /\ ret.op = "authenticate"
    /\ ~ret.ok
    /\ current_user.kind = "PremiumUser"
    /\ \E u \in disk.users : u.user_id = current_user.user_id /\ u.last_login # NULL

(* ------------------ authenticate, handlers interleaved ----------------- *)
\* Each handler runs one authenticate call on the one AuthenticationManager (one
\* connection, one current_user attribute); a step is one statement.

\* the SELECT, the test of fetchone() and the password check
AuthSelect(h, username, password) ==
    /\ pc[h] = "idle"
    /\ LET found == SelectUsersByName(conn, username)
           user_data == CHOOSE u \in found : TRUE
           locals == [user_id |-> NoSuchId, subscription_id |-> NoSuchId,
                      username |-> username, user_data |-> None,
                      ok |-> FALSE, val |-> None, e |-> NoError]
       IN IF found = {}
          THEN /\ pc' = [pc EXCEPT ![h] = "done"]
               /\ loc' = [loc EXCEPT ![h] = [locals EXCEPT !.val = UnknownUsernameMessage]]
          ELSE IF hash_password(password, VerificationSalt(user_data)) # user_data.password_hash
          THEN /\ pc' = [pc EXCEPT ![h] = "done"]
               /\ loc' = [loc EXCEPT ![h] = [locals EXCEPT !.val = WrongPasswordMessage]]
          ELSE /\ pc' = [pc EXCEPT ![h] = "verified"]
               /\ loc' = [loc EXCEPT ![h] = [locals EXCEPT !.user_id = user_data.user_id,
                                                          !.user_data = user_data]]
    /\ UNCHANGED <<disk, conn, now, current_user, ret, sessions>>

\* the UPDATE of last_login
AuthUpdate(h) ==
    /\ pc[h] = "verified"
    /\ conn' = UpdateLastLogin(conn, loc[h].user_id, isoformat(now))
    /\ pc' = [pc EXCEPT ![h] = "updated"]
    /\ UNCHANGED <<disk, now, current_user, ret, sessions, loc>>

\* self.db.commit()
AuthCommit(h) ==
    /\ pc[h] = "updated"
    /\ disk' = Commit(conn)
    /\ pc' = [pc EXCEPT ![h] = "committed"]
    /\ UNCHANGED <<conn, now, current_user, ret, sessions, loc>>

\* self.current_user = PremiumUser(...) or StandardUser(...)
AuthAssign(h) ==
    /\ pc[h] = "committed"
    /\ current_user' = PrincipalFor(loc[h].user_data, loc[h].username, now)
    /\ pc' = [pc EXCEPT ![h] = "assigned"]
    /\ UNCHANGED <<disk, conn, now, ret, sessions, loc>>

\* self.current_user.record_login()
AuthRecordLogin(h) ==
    /\ pc[h] = "assigned"
    /\ current_user' = record_login(current_user, now)
    /\ pc' = [pc EXCEPT ![h] = "recorded"]
    /\ UNCHANGED <<disk, conn, now, ret, sessions, loc>>

\* return True, self.current_user
AuthReturn(h) ==
    /\ pc[h] = "recorded"
    /\ pc' = [pc EXCEPT ![h] = "done"]
    /\ loc' = [loc EXCEPT ![h].ok = TRUE, ![h].val = current_user]
    /\ UNCHANGED <<disk, conn, now, current_user, ret, sessions>>

HandlerAuthSelect ==
    \E h \in Handlers, username \in LoginNames, password \in Passwords :
        AuthSelect(h, username, password)

HandlerAuthUpdate == \E h \in Handlers : AuthUpdate(h)

HandlerAuthCommit == \E h \in Handlers : AuthCommit(h)

HandlerAuthAssign == \E h \in Handlers : AuthAssign(h)

HandlerAuthRecordLogin == \E h \in Handlers : AuthRecordLogin(h)

HandlerAuthReturn == \E h \in Handlers : AuthReturn(h)

NextAuthHandlers ==
    \/ HandlerAuthSelect
    \/ HandlerAuthUpdate
    \/ HandlerAuthCommit
    \/ HandlerAuthAssign
    \/ HandlerAuthRecordLogin
    \/ HandlerAuthReturn

SpecAuthHandlers == InitSession /\ [][NextAuthHandlers]_vars

\* C27: a call that has ended has ended by returning a result: no exception has
\* left it. Here for award_badge calls, interleaved.
C27_EveryCallReturns ==
    \A h \in Handlers : pc[h] = "done" => loc[h].e = NoError

\* C28: in every interleaving of authenticate calls, the user object returned to
\* a caller is the one of the username the caller gave: that user's id, username
\* and the permissions of that user's stored tier.
C28_PrincipalIsCallers ==
    \A h \in Handlers :
        (pc[h] = "done" /\ loc[h].ok) =>
            /\ loc[h].val.user_id = loc[h].user_data.user_id
            /\ loc[h].val.username = loc[h].username
            /\ get_permissions(loc[h].val) =
                   get_permissions(PrincipalFor(loc[h].user_data, loc[h].username, now))

(* ------------------------- badges over time ---------------------------- *)
\* the trails delete_trail is called for: the added ones, and an id of no trail
TrailIdArgs == {t.trail_id : t \in {x \in conn.trails : x.trail_id > 7}} \cup {NoSuchId}

DeleteTrail == \E trail_id \in TrailIdArgs : delete_trail(trail_id)

\* award_badge called directly for the hiker
AwardHiker ==
    \E user_id \in Hikers, badge_id \in BadgeIdArgs : award_badge(user_id, badge_id)

\* completions, deletions of trails, eligibility checks and direct awards
NextRevoke ==
    \/ CompleteTrail
    \/ DeleteTrail
    \/ CheckBadgeEligibility
    \/ AwardHiker

SpecRevoke == InitAchievements /\ [][NextRevoke]_vars

\* sightings, completions, deletions of trails and eligibility checks: badges are
\* awarded by check_badge_eligibility only
NextTrails ==
    \/ AddSighting
    \/ CompleteTrail
    \/ DeleteTrail
    \/ CheckBadgeEligibility

SpecTrails == InitAchievements /\ [][NextTrails]_vars

\* C31: every user_badges row of the store is in the store after every step (in
\* the committed content and in the connection's view), whatever the user's
\* counters have become, and the badges table is the one bootstrap wrote.
C31_BadgesNeverRevoked ==
    [][ /\ disk.user_badges \subseteq disk'.user_badges
        /\ conn.user_badges \subseteq conn'.user_badges
        /\ disk'.badges = SampleBadges
        /\ conn'.badges = SampleBadges
      ]_vars

\* C31 witness: an eligibility check has returned for a user who holds Mountain
\* Goat and whose hard-trail count is 0 (the trail has been deleted)
C31_Witness ==
    /\ ret.op = "check_badge_eligibility"
    /\ \E user_id \in UserIds(disk) :
           /\ "Mountain Goat" \in HeldBadgeNames(disk, user_id)
           /\ HardTrailCount(disk, user_id) = 0

\* C32: with badges awarded by check_badge_eligibility only, a user who holds
\* Mountain Goat holds Trail Pioneer, in the committed content and in the
\* connection's view.
C32_MountainGoatHasPioneer ==
    \A user_id \in UserIds(conn) \cup UserIds(disk) :
        /\ "Mountain Goat" \in HeldBadgeNames(disk, user_id) =>
               "Trail Pioneer" \in HeldBadgeNames(disk, user_id)
        /\ "Mountain Goat" \in HeldBadgeNames(conn, user_id) =>
               "Trail Pioneer" \in HeldBadgeNames(conn, user_id)

\* C32 witness: two users hold Mountain Goat, and the hard trail they completed
\* has been deleted since
C32_Witness ==
    /\ Cardinality({user_id \in UserIds(disk) :
                       "Mountain Goat" \in HeldBadgeNames(disk, user_id)}) = 2
    /\ \A user_id \in UserIds(disk) : HardTrailCount(disk, user_id) = 0

====
